---- MODULE Spec2Model ----
(***************************************************************************)
(* FireAPI: the keyword classifier and estimate calculator of              *)
(* example_usage.py, the template validator and sample estimator of        *)
(* validate_template.py, and the HTTP routes of app.py.                    *)
(*                                                                         *)
(* Python strings on which the code does character work (lower, title,     *)
(* substring tests) are sequences of one-character strings.  Identifiers   *)
(* that the code only compares or uses as dictionary keys are TLA+ strings.*)
(* Python dictionaries are functions whose DOMAIN is the set of keys.      *)
(* Template numbers are drawn from small sets of integers, so arithmetic   *)
(* is exact (floating-point rounding is not modelled).                     *)
(***************************************************************************)
EXTENDS Integers, Sequences, FiniteSets, TLC

VARIABLES
    description,    \* example_usage.py: the text last given to parse_natural_language
    params,         \* example_usage.py: what parse_natural_language returned for it
    parsed,         \* example_usage.py: whether parse_natural_language has returned
    template,       \* the loaded trade template (EstimateGenerator.template / main's template)
    call,           \* the estimate entry point last called, with its arguments
    estimate,       \* what that call produced: its outcome, line items and totals
    ran,            \* validate_template.py: whether main has run to its exit
    printed,        \* validate_template.py: the validation lines main printed
    samples,        \* validate_template.py: what main's sample estimates produced
    exit_status,    \* validate_template.py: the exit status of the process
    SERVICES,       \* app.py: the service registry
    clock,          \* app.py: the wall clock, in seconds after the epoch of the model
    hash_seed,      \* app.py: the per-process seed of Python's str hash
    request,        \* app.py: the request last handled
    response,       \* app.py: the response to it: status and JSON body
    logged,         \* app.py: the log records its handling emitted
    prediction      \* app.py: the predictions computed while handling it

(***************************************************************************)
(* Bounds of the model.                                                    *)
(***************************************************************************)
\* Largest number of vocabulary fragments concatenated into a description.
MaxWords == 3

\* Largest number of phases in a template.
MaxPhases == 2

\* Last second the wall clock reaches.
MaxClock == 2

\* Largest absolute value of the hash seed of a process.
MaxSeed == 1

(***************************************************************************)
(* Python str operations.                                                  *)
(***************************************************************************)
UpperAlphabet ==
    <<"A","B","C","D","E","F","G","H","I","J","K","L","M",
      "N","O","P","Q","R","S","T","U","V","W","X","Y","Z">>

LowerAlphabet ==
    <<"a","b","c","d","e","f","g","h","i","j","k","l","m",
      "n","o","p","q","r","s","t","u","v","w","x","y","z">>

IsUpper(c) == \E i \in 1..Len(UpperAlphabet) : UpperAlphabet[i] = c

IsLower(c) == \E i \in 1..Len(LowerAlphabet) : LowerAlphabet[i] = c

LowerChar(c) ==
    IF IsUpper(c)
    THEN LowerAlphabet[CHOOSE i \in 1..Len(UpperAlphabet) : UpperAlphabet[i] = c]
    ELSE c

UpperChar(c) ==
    IF IsLower(c)
    THEN UpperAlphabet[CHOOSE i \in 1..Len(LowerAlphabet) : LowerAlphabet[i] = c]
    ELSE c

\* str.lower()
lower(s) == [i \in 1..Len(s) |-> LowerChar(s[i])]

\* str.title(): a letter is uppercased when it starts the string or follows
\* a character that is no letter, and lowercased otherwise.
title(s) ==
    [i \in 1..Len(s) |->
        IF i = 1 \/ ~(IsUpper(s[i - 1]) \/ IsLower(s[i - 1]))
        THEN UpperChar(s[i])
        ELSE LowerChar(s[i])]

\* Python's `word in text` on strings: word occurs as a contiguous substring.
Contains(word, text) ==
    \E i \in 0..(Len(text) - Len(word)) :
        \A j \in 1..Len(word) : text[i + j] = word[j]

\* any(word in text for word in words)
AnyWordIn(words, text) == \E k \in 1..Len(words) : Contains(words[k], text)

(***************************************************************************)
(* EstimateGenerator.parse_natural_language: the keyword lists.            *)
(***************************************************************************)
SizeSmallWords ==
    << <<"s","m","a","l","l">>,
       <<"g","a","l","l","e","y">>,
       <<"t","i","n","y">> >>

SizeLargeWords ==
    << <<"l","a","r","g","e">>,
       <<"b","i","g">>,
       <<"s","p","a","c","i","o","u","s">> >>

SizeXlWords ==
    << <<"x","l">>,
       <<"l","u","x","u","r","y">>,
       <<"m","a","s","s","i","v","e">> >>

ScopeCosmeticWords ==
    << <<"c","o","s","m","e","t","i","c">>,
       <<"r","e","f","r","e","s","h">>,
       <<"u","p","d","a","t","e">>,
       <<"p","a","i","n","t">>,
       <<"r","e","f","a","c","e">> >>

ScopeGutWords ==
    << <<"g","u","t">>,
       <<"c","o","m","p","l","e","t","e">>,
       <<"f","u","l","l">>,
       <<"t","e","a","r"," ","d","o","w","n">>,
       <<"r","e","b","u","i","l","d">> >>

QualityBudgetWords ==
    << <<"b","u","d","g","e","t">>,
       <<"c","h","e","a","p">>,
       <<"b","a","s","i","c">>,
       <<"a","f","f","o","r","d","a","b","l","e">> >>

QualityLuxuryWords ==
    << <<"l","u","x","u","r","y">>,
       <<"h","i","g","h","-","e","n","d">>,
       <<"p","r","e","m","i","u","m">>,
       <<"c","u","s","t","o","m">> >>

QualityHighEndWords ==
    << <<"h","i","g","h">>,
       <<"n","i","c","e">>,
       <<"g","o","o","d"," ","q","u","a","l","i","t","y">> >>

\* A kitchen-size chain that tests the xl keywords before the large ones.
KitchenSizeOf_XlBeforeLarge(text) ==
    IF AnyWordIn(SizeSmallWords, text) THEN "small"
    ELSE IF AnyWordIn(SizeXlWords, text) THEN "xl"
    ELSE IF AnyWordIn(SizeLargeWords, text) THEN "large"
    ELSE "medium"

\* The if/elif chain that determines the kitchen size (text already lowered).
KitchenSizeOf(text) ==
    IF AnyWordIn(SizeSmallWords, text) THEN "small"
    ELSE IF AnyWordIn(SizeLargeWords, text) THEN "large"
    ELSE IF AnyWordIn(SizeXlWords, text) THEN "xl"
    ELSE "medium"

\* The if/elif chain that determines the renovation scope.
ScopeOf(text) ==
    IF AnyWordIn(ScopeCosmeticWords, text) THEN "cosmetic"
    ELSE IF AnyWordIn(ScopeGutWords, text) THEN "gut_renovation"
    ELSE "standard"

\* A quality chain whose fallback is spelled with a hyphen.
QualityTierOf_HyphenDefault(text) ==
    IF AnyWordIn(QualityBudgetWords, text) THEN "budget"
    ELSE IF AnyWordIn(QualityLuxuryWords, text) THEN "luxury"
    ELSE IF AnyWordIn(QualityHighEndWords, text) THEN "high_end"
    ELSE "mid-range"

\* The if/elif chain that determines the quality tier.
QualityTierOf(text) ==
    IF AnyWordIn(QualityBudgetWords, text) THEN "budget"
    ELSE IF AnyWordIn(QualityLuxuryWords, text) THEN "luxury"
    ELSE IF AnyWordIn(QualityHighEndWords, text) THEN "high_end"
    ELSE "mid_range"

\* A classifier that matches keywords against the text as given, not lowered.
parse_natural_language_NoLower(d) ==
    [kitchen_size |-> KitchenSizeOf(d),
     scope        |-> ScopeOf(d),
     quality_tier |-> QualityTierOf(d)]

parse_natural_language(d) ==
    LET text == lower(d)
    IN  [kitchen_size |-> KitchenSizeOf(text),
         scope        |-> ScopeOf(text),
         quality_tier |-> QualityTierOf(text)]

(***************************************************************************)
(* The descriptions the classifier is run on: the three scenarios of       *)
(* example_usage.main and every concatenation of at most MaxWords          *)
(* fragments of a vocabulary that mixes keywords of all groups, letter     *)
(* case, and text that is no keyword.                                      *)
(***************************************************************************)
Scenario1 ==
    <<"I"," ","w","a","n","t"," ","t","o"," ","r","e","m","o","d","e","l"," ",
      "m","y"," ","s","m","a","l","l"," ","k","i","t","c","h","e","n"," ",
      "w","i","t","h"," ","n","e","w"," ","c","a","b","i","n","e","t","s",","," ",
      "c","o","u","n","t","e","r","t","o","p","s"," ","a","n","d"," ",
      "a","p","p","l","i","a","n","c","e","s">>

Scenario2 ==
    <<"C","o","m","p","l","e","t","e"," ","g","u","t"," ",
      "r","e","n","o","v","a","t","i","o","n"," ","o","f"," ",
      "l","a","r","g","e"," ","l","u","x","u","r","y"," ",
      "k","i","t","c","h","e","n"," ","w","i","t","h"," ",
      "c","u","s","t","o","m"," ","e","v","e","r","y","t","h","i","n","g">>

Scenario3 ==
    <<"B","u","d","g","e","t"," ","r","e","f","r","e","s","h"," ","o","f"," ",
      "m","e","d","i","u","m"," ","k","i","t","c","h","e","n"," ","-"," ",
      "j","u","s","t"," ","p","a","i","n","t"," ","c","a","b","i","n","e","t","s"," ",
      "a","n","d"," ","n","e","w"," ","c","o","u","n","t","e","r","t","o","p","s">>

Scenarios == {Scenario1, Scenario2, Scenario3}

Vocabulary ==
    << <<"S","m","a","l","l">>,
       <<"l","a","r","g","e">>,
       <<"l","u","x","u","r","y">>,
       <<"x">>,
       <<"g","u","t">>,
       <<"p","a","i","n","t">>,
       <<"b","u","d","g","e","t">>,
       <<"h","i","g","h","-","e","n","d">>,
       <<"n","i","c","e">>,
       <<"m","a","s","s","i","v","e">>,
       <<"F","U","L","L">>,
       <<" ","k","i","t","c","h","e","n"," ">> >>

RECURSIVE JoinFragments(_)
JoinFragments(ixs) ==
    IF ixs = <<>> THEN <<>>
    ELSE Vocabulary[Head(ixs)] \o JoinFragments(Tail(ixs))

FragmentDescriptions ==
    { JoinFragments(ixs) :
        ixs \in UNION { [1..n -> 1..Len(Vocabulary)] : n \in 0..MaxWords } }

Descriptions == Scenarios \cup FragmentDescriptions

(***************************************************************************)
(* Python dict operations.                                                 *)
(***************************************************************************)
\* key in d
Has(d, k) == k \in DOMAIN d

\* d.get(k, default)
Get(d, k, default) == IF k \in DOMAIN d THEN d[k] ELSE default

\* {}
EmptyDict == [k \in {} |-> 0]

\* bool(d) of a dict: an empty dict is falsy.
Truthy(d) == DOMAIN d # {}

\* x in lst, for a list
InList(x, lst) == \E i \in 1..Len(lst) : lst[i] = x

\* The str 'all', the value of phases_included that is no list of phase ids.
\* It is held as its characters, so that it can be compared with a list.
All == <<"a", "l", "l">>

(***************************************************************************)
(* The templates the estimators are run on.  A template is the dict that   *)
(* json.load returns.  Numbers are small integers; optional keys that the  *)
(* code reads with .get are absent in some tasks, materials and factors.   *)
(***************************************************************************)
PhaseDemolition ==
    [phase_id |-> "demolition", phase_name |-> "Demolition", sequence |-> 1,
     tasks |-> << [task |-> "Remove cabinets", labor_hours |-> 4,
                   hourly_rate_category |-> "general"],
                  [task |-> "Haul debris"] >>,
     materials |-> << [item |-> "Dumpster", quantity |-> 1, unit |-> "load",
                       unit_cost_base |-> 5, waste_factor |-> 0] >>]

PhaseCabinets ==
    [phase_id |-> "cabinets", phase_name |-> "Cabinets", sequence |-> 2,
     tasks |-> << [task |-> "Install cabinets", labor_hours |-> 3,
                   hourly_rate_category |-> "skilled"] >>,
     materials |-> << [item |-> "Cabinet boxes", quantity |-> 2, unit |-> "each",
                       unit_cost_base |-> 3, waste_factor |-> 1],
                      [item |-> "Hardware", quantity |-> 4] >>]

PhasePainting ==
    [phase_id |-> "painting", phase_name |-> "Painting", sequence |-> 3,
     tasks |-> << [task |-> "Paint walls", labor_hours |-> 2,
                   hourly_rate_category |-> "apprentice"] >>,
     materials |-> <<>>]

\* A phase without the optional tasks and materials keys.
PhaseInspection ==
    [phase_id |-> "inspection", phase_name |-> "Inspection", sequence |-> 4]

PhasePool == {PhaseDemolition, PhaseCabinets, PhasePainting, PhaseInspection}

PhaseLists == UNION { [1..n -> PhasePool] : n \in 0..MaxPhases }

LaborRatesFull ==
    [skilled |-> [typical |-> 5], general |-> [typical |-> 3],
     apprentice |-> [typical |-> 2]]

\* Rates without the apprentice category.
LaborRatesNoApprentice ==
    [skilled |-> [typical |-> 7], general |-> [typical |-> 3]]

LaborRatesOptions == {LaborRatesFull, LaborRatesNoApprentice}

SizingFactorsFull ==
    [kitchen_size |->
         [small  |-> [complexity_multiplier |-> 1],
          medium |-> [complexity_multiplier |-> 2],
          large  |-> [complexity_multiplier |-> 3],
          xl     |-> [complexity_multiplier |-> 4]],
     renovation_scope |->
         [cosmetic |-> [complexity_multiplier |-> 1,
                        phases_included |-> <<"painting", "cabinets">>],
          standard |-> [complexity_multiplier |-> 2,
                        phases_included |-> All],
          gut_renovation |-> [complexity_multiplier |-> 3]]]

\* No small and xl size, no gut_renovation scope, and a cosmetic scope
\* without a complexity multiplier.
SizingFactorsPartial ==
    [kitchen_size |->
         [medium |-> [complexity_multiplier |-> 1],
          large  |-> [complexity_multiplier |-> 2]],
     renovation_scope |->
         [cosmetic |-> [phases_included |-> <<"painting">>],
          standard |-> [complexity_multiplier |-> 3]]]

\* A small size that is an empty dict, no large size, no cosmetic scope, and
\* a standard scope that names a phase no template has.
SizingFactorsEmptySmall ==
    [kitchen_size |->
         [small  |-> EmptyDict,
          medium |-> [complexity_multiplier |-> 3],
          xl     |-> [complexity_multiplier |-> 2]],
     renovation_scope |->
         [standard |-> [complexity_multiplier |-> 1,
                        phases_included |-> <<"demolition", "attic">>],
          gut_renovation |-> [complexity_multiplier |-> 2,
                              phases_included |-> All]]]

SizingFactorsOptions ==
    {SizingFactorsFull, SizingFactorsPartial, SizingFactorsEmptySmall}

QualityTiersFull ==
    [budget    |-> [material_multiplier |-> 1],
     mid_range |-> [material_multiplier |-> 2],
     high_end  |-> [material_multiplier |-> 3],
     luxury    |-> [material_multiplier |-> 5]]

\* No budget and high_end tier.
QualityTiersPartial ==
    [mid_range |-> [material_multiplier |-> 1],
     luxury    |-> [material_multiplier |-> 3]]

QualityTiersOptions == {QualityTiersFull, QualityTiersPartial}

MakeTemplate(ps, lr, sf, qt) ==
    [job_id |-> "kitchen_renovation_complete",
     trade_category |-> "multi_trade",
     job_name |-> "Complete Kitchen Renovation",
     description |-> "Full kitchen renovation",
     phases |-> ps, labor_rates |-> lr, sizing_factors |-> sf,
     quality_tiers |-> qt]

Templates ==
    { MakeTemplate(ps, lr, sf, qt) :
        ps \in PhaseLists, lr \in LaborRatesOptions,
        sf \in SizingFactorsOptions, qt \in QualityTiersOptions }

(***************************************************************************)
(* What a call of an estimate entry point produced.  outcome is            *)
(* "returned" (a dict was returned), "None" (None was returned) or the     *)
(* name of the exception that left the function.  line_items and totals    *)
(* are what the caller received: totals is a sequence of no or one record. *)
(* phases_processed counts the phases whose processing had begun.          *)
(***************************************************************************)
Produced(outcome, line_items, totals, phases_processed) ==
    [outcome |-> outcome, line_items |-> line_items, totals |-> totals,
     phases_processed |-> phases_processed]

Raised(exception, phases_processed) ==
    Produced(exception, <<>>, <<>>, phases_processed)

(***************************************************************************)
(* EstimateGenerator._process_phase                                        *)
(***************************************************************************)
\* The labor_rates[...]['typical'] lookup of a task.
TaskRate(tpl, task) ==
    tpl.labor_rates[Get(task, "hourly_rate_category", "skilled")].typical

\* Whether building a task's line item raises KeyError.
TaskItemRaises(tpl, phase, task) ==
    \/ ~Has(phase, "phase_name")
    \/ ~Has(task, "task")
    \/ ~Has(tpl, "labor_rates")
    \/ ~Has(tpl.labor_rates, Get(task, "hourly_rate_category", "skilled"))
    \/ ~Has(tpl.labor_rates[Get(task, "hourly_rate_category", "skilled")],
            "typical")

LaborItem(tpl, phase, task) ==
    [category    |-> "labor",
     phase       |-> phase.phase_name,
     description |-> task.task,
     hours       |-> Get(task, "labor_hours", 0),
     rate        |-> TaskRate(tpl, task),
     total_cost  |-> Get(task, "labor_hours", 0) * TaskRate(tpl, task)]

\* Whether building a material's line item raises KeyError.
MaterialItemRaises(phase, material) ==
    \/ ~Has(phase, "phase_name")
    \/ ~Has(material, "item")

\* quantity * unit_cost * (1 + waste_factor), absent numbers read as 0.
MaterialCost(material) ==
    Get(material, "quantity", 0) * Get(material, "unit_cost_base", 0)
        * (1 + Get(material, "waste_factor", 0))

MaterialItem(phase, material) ==
    [category     |-> "material",
     phase        |-> phase.phase_name,
     description  |-> material.item,
     quantity     |-> Get(material, "quantity", 0),
     unit         |-> Get(material, "unit", "each"),
     unit_cost    |-> Get(material, "unit_cost_base", 0),
     waste_factor |-> Get(material, "waste_factor", 0),
     total_cost   |-> MaterialCost(material)]

\* [raised, items]: the items list, task items first, unless a lookup raised.
process_phase(tpl, phase) ==
    LET tasks     == Get(phase, "tasks", <<>>)
        materials == Get(phase, "materials", <<>>)
        raised    ==
            \/ \E i \in 1..Len(tasks) : TaskItemRaises(tpl, phase, tasks[i])
            \/ \E i \in 1..Len(materials) :
                   MaterialItemRaises(phase, materials[i])
    IN  IF raised THEN [raised |-> TRUE, items |-> <<>>]
        ELSE [raised |-> FALSE,
              items  |->
                  [i \in 1..Len(tasks) |-> LaborItem(tpl, phase, tasks[i])]
                  \o [i \in 1..Len(materials) |->
                          MaterialItem(phase, materials[i])]]

(***************************************************************************)
(* Phase selection, shared by both entry points:                           *)
(*   phases_included = scope_factor.get('phases_included', 'all')          *)
(*   all phases if it is 'all', else those whose phase_id is in it.        *)
(***************************************************************************)
PhasesIncluded(scope_factor) == Get(scope_factor, "phases_included", All)

\* Whether selecting the phases raises KeyError.
IncludedPhasesRaises(tpl, scope_factor) ==
    \/ ~Has(tpl, "phases")
    \/ /\ PhasesIncluded(scope_factor) # All
       /\ \E i \in 1..Len(tpl.phases) : ~Has(tpl.phases[i], "phase_id")

\* A selection that ignores phases_included.
IncludedPhases_Unfiltered(tpl, scope_factor) == tpl.phases

\* The phases of the template that the scope includes, in template order.
IncludedPhases(tpl, scope_factor) ==
    IF PhasesIncluded(scope_factor) = All THEN tpl.phases
    ELSE LET Included(p) == InList(p.phase_id, PhasesIncluded(scope_factor))
         IN  SelectSeq(tpl.phases, Included)

(***************************************************************************)
(* EstimateGenerator.generate_estimate                                     *)
(***************************************************************************)
\* The loop over the included phases: [raised, items, processed].
RECURSIVE ProcessPhases(_, _, _, _)
ProcessPhases(tpl, phases, items, processed) ==
    IF phases = <<>>
    THEN [raised |-> FALSE, items |-> items, processed |-> processed]
    ELSE LET r == process_phase(tpl, Head(phases))
         IN  IF r.raised
             THEN [raised |-> TRUE, items |-> <<>>, processed |-> processed + 1]
             ELSE ProcessPhases(tpl, Tail(phases), items \o r.items,
                                processed + 1)

\* total_labor_hours: the hours of the labor items.
RECURSIVE TotalLaborHours(_)
TotalLaborHours(items) ==
    IF items = <<>> THEN 0
    ELSE (IF Head(items).category = "labor" THEN Head(items).hours ELSE 0)
         + TotalLaborHours(Tail(items))

\* total_material_cost: the total_cost of the items that are not labor.
RECURSIVE TotalMaterialCost(_)
TotalMaterialCost(items) ==
    IF items = <<>> THEN 0
    ELSE (IF Head(items).category = "labor" THEN 0 ELSE Head(items).total_cost)
         + TotalMaterialCost(Tail(items))

\* Whether the three factor lookups of lines 71-73 raise KeyError.
FactorLookupRaises(tpl, p) ==
    \/ ~Has(tpl, "sizing_factors")
    \/ ~Has(tpl.sizing_factors, "kitchen_size")
    \/ ~Has(tpl.sizing_factors.kitchen_size, p.kitchen_size)
    \/ ~Has(tpl.sizing_factors, "renovation_scope")
    \/ ~Has(tpl.sizing_factors.renovation_scope, p.scope)
    \/ ~Has(tpl, "quality_tiers")
    \/ ~Has(tpl.quality_tiers, p.quality_tier)

\* Whether the multiplier and rate lookups of lines 98-103 raise KeyError.
MultiplierLookupRaises(tpl, size_factor, scope_factor, quality_factor) ==
    \/ ~Has(size_factor, "complexity_multiplier")
    \/ ~Has(scope_factor, "complexity_multiplier")
    \/ ~Has(quality_factor, "material_multiplier")
    \/ ~Has(tpl, "labor_rates")
    \/ ~Has(tpl.labor_rates, "skilled")
    \/ ~Has(tpl.labor_rates.skilled, "typical")

\* Totals whose labor cost adds up each task's own rate.
GenerateTotals_PerTaskRates(tpl, size_factor, scope_factor, quality_factor, items) ==
    LET complexity == size_factor.complexity_multiplier
                          * scope_factor.complexity_multiplier
        own_rates  ==
            LET RECURSIVE Own(_)
                Own(its) ==
                    IF its = <<>> THEN 0
                    ELSE (IF Head(its).category = "labor"
                          THEN Head(its).total_cost ELSE 0) + Own(Tail(its))
            IN  Own(items) * complexity
        adjusted_materials == TotalMaterialCost(items)
                                  * quality_factor.material_multiplier
    IN  [labor_hours   |-> TotalLaborHours(items) * complexity,
         labor_cost    |-> own_rates,
         material_cost |-> adjusted_materials,
         total_cost    |-> own_rates + adjusted_materials]

\* Lines 97-127, once no lookup raises: the totals of the returned dict.
GenerateTotals(tpl, size_factor, scope_factor, quality_factor, items) ==
    LET total_labor_hours   == TotalLaborHours(items)
        total_material_cost == TotalMaterialCost(items)
        complexity          == size_factor.complexity_multiplier
                                   * scope_factor.complexity_multiplier
        adjusted_hours      == total_labor_hours * complexity
        adjusted_materials  == total_material_cost
                                   * quality_factor.material_multiplier
        labor_rate          == tpl.labor_rates.skilled.typical
        labor_cost          == adjusted_hours * labor_rate
        total_cost          == labor_cost + adjusted_materials
    IN  [labor_hours   |-> adjusted_hours,
         labor_cost    |-> labor_cost,
         material_cost |-> adjusted_materials,
         total_cost    |-> total_cost]

generate_estimate(tpl, natural_language_input) ==
    LET p == parse_natural_language(natural_language_input)
    IN  IF FactorLookupRaises(tpl, p) THEN Raised("KeyError", 0)
        ELSE
        LET size_factor    == tpl.sizing_factors.kitchen_size[p.kitchen_size]
            scope_factor   == tpl.sizing_factors.renovation_scope[p.scope]
            quality_factor == tpl.quality_tiers[p.quality_tier]
        IN  IF IncludedPhasesRaises(tpl, scope_factor)
            THEN Raised("KeyError", 0)
            ELSE
            LET loop == ProcessPhases(tpl, IncludedPhases(tpl, scope_factor),
                                      <<>>, 0)
            IN  IF loop.raised THEN Raised("KeyError", loop.processed)
                ELSE IF MultiplierLookupRaises(tpl, size_factor, scope_factor,
                                               quality_factor)
                THEN Raised("KeyError", loop.processed)
                \* _print_detailed_estimate divides by the quality multiplier
                ELSE IF quality_factor.material_multiplier = 0
                THEN Raised("ZeroDivisionError", loop.processed)
                ELSE Produced("returned", loop.items,
                              << GenerateTotals(tpl, size_factor, scope_factor,
                                                quality_factor, loop.items) >>,
                              loop.processed)

(***************************************************************************)
(* validate_template.calculate_sample_estimate                             *)
(***************************************************************************)
\* phase_labor_hours of a phase
RECURSIVE PhaseLaborHours(_)
PhaseLaborHours(tasks) ==
    IF tasks = <<>> THEN 0
    ELSE Get(Head(tasks), "labor_hours", 0) + PhaseLaborHours(Tail(tasks))

\* phase_material_cost of a phase
RECURSIVE PhaseMaterialCost(_)
PhaseMaterialCost(materials) ==
    IF materials = <<>> THEN 0
    ELSE MaterialCost(Head(materials)) + PhaseMaterialCost(Tail(materials))

\* The loop over the included phases: [raised, hours, cost, processed].
\* The per-phase print reads phase['sequence'] and phase['phase_name'].
RECURSIVE SumPhases(_, _, _, _)
SumPhases(phases, hours, cost, processed) ==
    IF phases = <<>>
    THEN [raised |-> FALSE, hours |-> hours, cost |-> cost,
          processed |-> processed]
    ELSE LET phase == Head(phases)
         IN  IF ~Has(phase, "sequence") \/ ~Has(phase, "phase_name")
             THEN [raised |-> TRUE, hours |-> 0, cost |-> 0,
                   processed |-> processed + 1]
             ELSE SumPhases(Tail(phases),
                            hours + PhaseLaborHours(Get(phase, "tasks", <<>>)),
                            cost + PhaseMaterialCost(
                                       Get(phase, "materials", <<>>)),
                            processed + 1)

\* Lines 115-140: the returned dict.
SampleTotals(tpl, size_factor, scope_factor, total_labor_hours, total_material_cost) ==
    LET complexity_multiplier ==
            Get(size_factor, "complexity_multiplier", 1)
                * Get(scope_factor, "complexity_multiplier", 1)
        adjusted_labor_hours   == total_labor_hours * complexity_multiplier
        adjusted_material_cost == total_material_cost * complexity_multiplier
        typical_rate           == tpl.labor_rates.skilled.typical
        total_labor_cost       == adjusted_labor_hours * typical_rate
    IN  [labor_hours   |-> adjusted_labor_hours,
         labor_cost    |-> total_labor_cost,
         material_cost |-> adjusted_material_cost,
         total_cost    |-> total_labor_cost + adjusted_material_cost]

\* A check that rejects only when both factors are missing.
InvalidFactors_BothMissing(size_factor, scope_factor) ==
    ~Truthy(size_factor) /\ ~Truthy(scope_factor)

\* Line 71: not size_factor or not scope_factor
InvalidFactors(size_factor, scope_factor) ==
    ~Truthy(size_factor) \/ ~Truthy(scope_factor)

calculate_sample_estimate(tpl, kitchen_size, scope) ==
    IF \/ ~Has(tpl, "sizing_factors")
       \/ ~Has(tpl.sizing_factors, "kitchen_size")
       \/ ~Has(tpl.sizing_factors, "renovation_scope")
    THEN Raised("KeyError", 0)
    ELSE
    LET size_factor  == Get(tpl.sizing_factors.kitchen_size, kitchen_size,
                            EmptyDict)
        scope_factor == Get(tpl.sizing_factors.renovation_scope, scope,
                            EmptyDict)
    IN  IF InvalidFactors(size_factor, scope_factor)
        THEN Produced("None", <<>>, <<>>, 0)
        ELSE IF IncludedPhasesRaises(tpl, scope_factor) \/ ~Has(tpl, "labor_rates")
        THEN Raised("KeyError", 0)
        ELSE
        LET loop == SumPhases(IncludedPhases(tpl, scope_factor), 0, 0, 0)
        IN  IF loop.raised THEN Raised("KeyError", loop.processed)
            ELSE IF \/ ~Has(tpl.labor_rates, "skilled")
                    \/ ~Has(tpl.labor_rates.skilled, "typical")
            THEN Raised("KeyError", loop.processed)
            ELSE Produced("returned", <<>>,
                          << SampleTotals(tpl, size_factor, scope_factor,
                                          loop.hours, loop.cost) >>,
                          loop.processed)

(***************************************************************************)
(* validate_template.py: validation and main.  A printed line is a record  *)
(* of its message and the values formatted into it.                        *)
(***************************************************************************)
RequiredFields ==
    <<"job_id", "trade_category", "job_name", "description",
      "phases", "labor_rates", "sizing_factors">>

RequiredPhaseFields ==
    <<"phase_id", "phase_name", "sequence", "tasks", "materials">>

\* [field for field in required if field not in d]
MissingFields(required, d) ==
    LET Missing(field) == ~Has(d, field)
    IN  SelectSeq(required, Missing)

\* [ok, printed]
validate_template_structure(tpl) ==
    LET missing_fields == MissingFields(RequiredFields, tpl)
    IN  IF missing_fields # <<>>
        THEN [ok |-> FALSE,
              printed |-> << [line |-> "Missing required fields",
                              fields |-> missing_fields] >>]
        ELSE [ok |-> TRUE,
              printed |-> << [line |-> "All required template fields present"] >>]

\* The loop of validate_phases from phase i on: [ok, printed].
RECURSIVE ValidatePhasesFrom(_, _, _, _)
ValidatePhasesFrom(phases, i, total_tasks, total_materials) ==
    IF i > Len(phases)
    THEN [ok |-> TRUE,
          printed |-> << [line |-> "phases validated", phases |-> Len(phases),
                          tasks |-> total_tasks,
                          materials |-> total_materials] >>]
    ELSE LET missing == MissingFields(RequiredPhaseFields, phases[i])
         IN  IF missing # <<>>
             THEN [ok |-> FALSE,
                   printed |-> << [line |-> "Phase missing fields",
                                   phase |-> i, fields |-> missing] >>]
             ELSE ValidatePhasesFrom(
                      phases, i + 1,
                      total_tasks + Len(Get(phases[i], "tasks", <<>>)),
                      total_materials + Len(Get(phases[i], "materials", <<>>)))

\* [ok, printed].  Every phases value of the inputs is a list, so the guard
\* `not phases or not isinstance(phases, list)` is the test for the empty list.
validate_phases(phases) ==
    IF phases = <<>>
    THEN [ok |-> FALSE,
          printed |-> << [line |-> "Phases must be a non-empty list"] >>]
    ELSE ValidatePhasesFrom(phases, 1, 0, 0)

\* The scenarios list of main.
MainScenarios ==
    << <<"small", "cosmetic">>, <<"medium", "standard">>,
       <<"large", "gut_renovation">> >>

\* The loop of main over the scenarios from scenario i on: what each call of
\* calculate_sample_estimate produced, up to the first that raises.
RECURSIVE RunScenarios(_, _)
RunScenarios(tpl, i) ==
    IF i > Len(MainScenarios) THEN <<>>
    ELSE LET e == calculate_sample_estimate(tpl, MainScenarios[i][1],
                                            MainScenarios[i][2])
         IN  IF e.outcome \in {"returned", "None"}
             THEN <<e>> \o RunScenarios(tpl, i + 1)
             ELSE <<e>>

\* main, after load_template has returned a dict: [printed, samples, exit_status].
\* An exception that leaves main ends the process with status 1.
main(tpl) ==
    IF ~Truthy(tpl)
    THEN [printed |-> <<>>, samples |-> <<>>, exit_status |-> 1]
    ELSE
    LET structure == validate_template_structure(tpl)
    IN  IF ~structure.ok
        THEN [printed |-> structure.printed, samples |-> <<>>,
              exit_status |-> 1]
        ELSE
        LET phases == validate_phases(tpl.phases)
        IN  IF ~phases.ok
            THEN [printed |-> structure.printed \o phases.printed,
                  samples |-> <<>>, exit_status |-> 1]
            ELSE
            LET estimates == RunScenarios(tpl, 1)
            IN  IF estimates[Len(estimates)].outcome \notin {"returned", "None"}
                THEN [printed |-> structure.printed \o phases.printed,
                      samples |-> estimates, exit_status |-> 1]
                ELSE [printed |-> structure.printed \o phases.printed
                          \o << [line |-> "Template validation completed successfully"] >>,
                      samples |-> estimates, exit_status |-> 0]

(***************************************************************************)
(* app.py: the values of a request's JSON body.  A JSON value is a record  *)
(* of its Python type t and of s, the characters of str(value) (for a str, *)
(* its content).  A body is a record of its kind and, for a JSON object,   *)
(* its fields: "no_json" is a request that carries no JSON (request.json   *)
(* raises UnsupportedMediaType; Flask before 2.1 returns None and the next *)
(* line raises AttributeError), "malformed" a JSON request that does not   *)
(* parse (request.json raises BadRequest), "null" and "array" JSON values  *)
(* that are no object.                                                     *)
(***************************************************************************)
JStr(chars) == [t |-> "str", s |-> chars]

JInt7 == [t |-> "int", s |-> <<"7">>]

JNull == [t |-> "NoneType", s |-> <<"N","o","n","e">>]

JEmptyList == [t |-> "list", s |-> <<"[","]">>]

\* Whether a value can be a dict key: lists and dicts are unhashable.
Hashable(v) == v.t \notin {"list", "dict"}

\* The exception that reading the body as a dict raises, or "" for an object.
BodyException(body) ==
    CASE body.kind = "no_json"   -> "UnsupportedMediaType"
      [] body.kind = "malformed" -> "BadRequest"
      [] body.kind = "null"      -> "AttributeError"
      [] body.kind = "array"     -> "AttributeError"
      [] OTHER                   -> ""

(***************************************************************************)
(* datetime.datetime.now().isoformat(), for a clock that counts whole      *)
(* seconds (below 60) from 2026-01-01T00:00:00.                            *)
(***************************************************************************)
Digits == <<"0","1","2","3","4","5","6","7","8","9">>

isoformat(t) ==
    <<"2","0","2","6","-","0","1","-","0","1","T","0","0",":","0","0",":">>
        \o <<Digits[(t \div 10) + 1], Digits[(t % 10) + 1]>>

(***************************************************************************)
(* hash(str): Python salts the hash of a str with a seed drawn when the    *)
(* process starts, so the value is fixed within a process and differs      *)
(* between processes.  The model's hash is the seed plus a code of the     *)
(* characters; it may be negative, as Python's is.                         *)
(***************************************************************************)
CharCode(c) ==
    IF IsLower(c)
    THEN CHOOSE i \in 1..Len(LowerAlphabet) : LowerAlphabet[i] = c
    ELSE IF IsUpper(c)
    THEN 26 + (CHOOSE i \in 1..Len(UpperAlphabet) : UpperAlphabet[i] = c)
    ELSE 53

RECURSIVE CharSum(_)
CharSum(s) == IF s = <<>> THEN 0 ELSE CharCode(Head(s)) + CharSum(Tail(s))

hash(seed, s) == (seed * 1000003) + CharSum(s)

(***************************************************************************)
(* The service registry as the module defines it.                          *)
(***************************************************************************)
ServiceRegistry ==
    [firebet |->
         [url |-> "https://firebet-production.railway.app",
          status |-> "planned",
          description |-> "Sports betting intelligence and predictions"],
     firecrypto |->
         [url |-> "https://firecrypto-production.railway.app",
          status |-> "planned",
          description |-> "Cryptocurrency market intelligence and predictions"],
     firecrm |->
         [url |-> "https://firecrm-production.railway.app",
          status |-> "planned",
          description |-> "Customer relationship management and lead intelligence"],
     firebranding |->
         [url |-> "https://firebranding-production.railway.app",
          status |-> "planned",
          description |-> "Digital presence analysis and branding intelligence"],
     firecontractor |->
         [url |-> "https://firecontractor-production.railway.app",
          status |-> "planned",
          description |-> "Construction project management and optimization"],
     firefleet |->
         [url |-> "https://firefleet-production.railway.app",
          status |-> "planned",
          description |-> "Fleet logistics and route optimization"],
     roomlens |->
         [url |-> "https://roomlens-production.railway.app",
          status |-> "planned",
          description |-> "Property analytics and real estate intelligence"]]

\* len([s for s in services.values() if s["status"] == status])
CountStatus(services, status) ==
    Cardinality({name \in DOMAIN services : services[name].status = status})

(***************************************************************************)
(* What handling a request produced: the response (status and body), the   *)
(* log records emitted and the predictions computed.                       *)
(***************************************************************************)
Handled(status, body, log, predictions) ==
    [response |-> [status |-> status, body |-> body],
     logged |-> log, prediction |-> predictions]

\* home
home(services, now) ==
    Handled(200,
        [name |-> "FireAPI - Central Intelligence Hub",
         version |-> "2.0.0",
         description |-> "Central hub for Fire Ventures Enterprise ecosystem",
         architecture |->
             "Hub and Spoke Model - All apps communicate through FireAPI",
         ecosystem |->
             [total_services |-> Cardinality(DOMAIN services),
              available_services |-> DOMAIN services,
              operational_services |-> CountStatus(services, "live"),
              planned_services |-> CountStatus(services, "planned")],
         endpoints |->
             [sports_intelligence |-> "/sports/predict (POST)",
              crypto_intelligence |-> "/crypto/predict (POST)",
              crm_operations |-> "/crm/analyze (POST)",
              branding_analysis |-> "/branding/analyze (POST)",
              service_directory |-> "/services (GET)",
              health_check |-> "/health (GET)"],
         communication_flow |->
             <<"1. Apps make requests to FireAPI",
               "2. FireAPI processes with central intelligence",
               "3. FireAPI returns enriched data to apps",
               "4. Apps display results to users">>,
         documentation |-> "https://tgwbkzua.gensparkspace.com/",
         timestamp |-> isoformat(now)],
        <<>>, <<>>)

\* services
services(registry, now) ==
    Handled(200,
        [fire_ecosystem |-> registry,
         total_services |-> Cardinality(DOMAIN registry),
         central_hub |-> "FireAPI coordinates all intelligence",
         architecture |-> "Microservices communicating through central hub",
         service_status |->
             [service \in DOMAIN registry |-> registry[service].status]],
        <<>>, <<>>)

\* health
health(registry, now) ==
    Handled(200,
        [fireapi_status |-> "healthy",
         timestamp |-> isoformat(now),
         central_hub |-> "operational",
         version |-> "2.0.0",
         ecosystem |->
             [total_services |-> Cardinality(DOMAIN registry),
              live_services |-> CountStatus(registry, "live"),
              planned_services |-> CountStatus(registry, "planned")],
         intelligence_modules |->
             <<"sports_prediction", "crypto_prediction", "crm_analysis",
               "branding_analysis">>],
        <<>>, <<>>)

\* process_sports_prediction
process_sports_prediction(sport, team1, team2, now, seed) ==
    [prediction |->
         title(team1)
             \o <<" ","w","i","n","s"," ","b","y"," ","3","-","7"," ",
                  "p","o","i","n","t","s">>,
     confidence |-> 75 + (hash(seed, team1 \o team2) % 20),
     sport |-> sport,
     matchup |-> title(team1) \o <<" ","v","s"," ">> \o title(team2),
     factors |->
         <<"Home field advantage analysis",
           "Recent performance trends",
           "Injury report impact assessment",
           "Historical head-to-head data">>,
     betting_recommendations |->
         << <<"T","a","k","e"," ">> \o title(team1)
                \o <<" ","-","3"," ","t","o"," ","-","7">>,
            <<"C","o","n","s","i","d","e","r"," ","O","v","e","r"," ","o","n",
              " ","t","o","t","a","l"," ","p","o","i","n","t","s">> >>,
     timestamp |-> isoformat(now),
     service |-> "FireAPI Sports Intelligence v2.0"]

\* The price_targets lookup: price_targets.get(coin, {}).get(timeframe, "TBD")
PriceTarget(coin, timeframe) ==
    LET tf == IF timeframe.t = "str" THEN timeframe.s ELSE <<>>
    IN  IF coin = <<"b","i","t","c","o","i","n">>
        THEN CASE tf = <<"1","h">>     -> "$43,200"
               [] tf = <<"6","h">>     -> "$44,500"
               [] tf = <<"2","4","h">> -> "$45,000"
               [] tf = <<"4","8","h">> -> "$46,800"
               [] OTHER                -> "TBD"
        ELSE IF coin = <<"e","t","h","e","r","e","u","m">>
        THEN CASE tf = <<"1","h">>     -> "$2,650"
               [] tf = <<"6","h">>     -> "$2,720"
               [] tf = <<"2","4","h">> -> "$2,800"
               [] tf = <<"4","8","h">> -> "$2,900"
               [] OTHER                -> "TBD"
        ELSE "TBD"

\* process_crypto_prediction, for a timeframe that can be a dict key
process_crypto_prediction(coin, timeframe, now, seed) ==
    LET confidence == 70 + (hash(seed, coin \o timeframe.s) % 25)
    IN  [coin |-> coin,
         timeframe |-> timeframe,
         prediction |-> IF confidence > 75 THEN "bullish" ELSE "neutral",
         price_target |-> PriceTarget(coin, timeframe),
         confidence |-> confidence,
         factors |->
             <<"Technical indicator analysis",
               "Market sentiment evaluation",
               "Volume and liquidity assessment">>,
         timestamp |-> isoformat(now),
         service |-> "FireAPI Crypto Intelligence v2.0"]

\* log_app_activity: the ACTIVITY record it logs
log_app_activity(app_id, action, status, user_id, now) ==
    [level |-> "INFO", message |-> "ACTIVITY",
     activity |-> [app_id |-> app_id, action |-> action, status |-> status,
                   user_id |-> user_id, timestamp |-> isoformat(now)]]

\* An except clause that returns the text of the exception.
ErrorResponse_LeaksDetail(message, exception) ==
    [response |-> [status |-> 500, body |-> [error |-> exception]],
     logged |-> << [level |-> "ERROR", message |-> message,
                    exception |-> exception] >>,
     prediction |-> <<>>]

\* The except clause of a route: log the exception, answer 500 with the
\* route's fixed message.
ErrorResponse(message, exception) ==
    Handled(500, [error |-> message],
            << [level |-> "ERROR", message |-> message,
                exception |-> exception] >>,
            <<>>)

\* sports_predict
sports_predict(body, now, seed) ==
    LET unavailable == "Sports intelligence temporarily unavailable"
        data        == body.fields
    IN  IF BodyException(body) # ""
        THEN ErrorResponse(unavailable, BodyException(body))
        \* .lower() of a value that is no str
        ELSE IF Get(data, "team1", JStr(<<>>)).t # "str"
        THEN ErrorResponse(unavailable, "AttributeError")
        ELSE IF Get(data, "team2", JStr(<<>>)).t # "str"
        THEN ErrorResponse(unavailable, "AttributeError")
        ELSE
        LET sport   == Get(data, "sport", JStr(<<"n","f","l">>))
            team1   == lower(Get(data, "team1", JStr(<<>>)).s)
            team2   == lower(Get(data, "team2", JStr(<<>>)).s)
            app_id  == Get(data, "app_id", JStr(<<"u","n","k","n","o","w","n">>))
            user_id == Get(data, "user_id",
                           JStr(<<"a","n","o","n","y","m","o","u","s">>))
        IN  IF team1 = <<>> \/ team2 = <<>>
            THEN Handled(400, [error |-> "Both team1 and team2 are required"],
                         <<>>, <<>>)
            ELSE
            LET p == process_sports_prediction(sport, team1, team2, now, seed)
            IN  Handled(200, p,
                    << [level |-> "INFO", message |-> "Sports prediction",
                        app_id |-> app_id, user_id |-> user_id,
                        team1 |-> team1, team2 |-> team2],
                       log_app_activity(app_id, "sports_prediction", "success",
                                        user_id, now) >>,
                    <<p>>)

\* crypto_predict
crypto_predict(body, now, seed) ==
    LET unavailable == "Crypto intelligence temporarily unavailable"
        data        == body.fields
    IN  IF BodyException(body) # ""
        THEN ErrorResponse(unavailable, BodyException(body))
        \* .lower() of a value that is no str
        ELSE IF Get(data, "coin", JStr(<<"b","i","t","c","o","i","n">>)).t # "str"
        THEN ErrorResponse(unavailable, "AttributeError")
        ELSE
        LET coin      == lower(Get(data, "coin",
                                   JStr(<<"b","i","t","c","o","i","n">>)).s)
            timeframe == Get(data, "timeframe", JStr(<<"2","4","h">>))
            app_id    == Get(data, "app_id", JStr(<<"u","n","k","n","o","w","n">>))
            user_id   == Get(data, "user_id",
                             JStr(<<"a","n","o","n","y","m","o","u","s">>))
            info      == [level |-> "INFO", message |-> "Crypto prediction",
                          app_id |-> app_id, user_id |-> user_id,
                          coin |-> coin, timeframe |-> timeframe]
        IN  \* the price_targets lookup hashes the timeframe
            IF ~Hashable(timeframe)
            THEN [response |-> ErrorResponse(unavailable, "TypeError").response,
                  logged |-> <<info>>
                      \o ErrorResponse(unavailable, "TypeError").logged,
                  prediction |-> <<>>]
            ELSE
            LET p == process_crypto_prediction(coin, timeframe, now, seed)
            IN  Handled(200, p,
                    << info,
                       log_app_activity(app_id, "crypto_prediction", "success",
                                        user_id, now) >>,
                    <<p>>)

(***************************************************************************)
(* Idle values: each program below uses its own variables and leaves the   *)
(* others at these values.                                                 *)
(***************************************************************************)
vars ==
    <<description, params, parsed, template, call, estimate,
      ran, printed, samples, exit_status,
      SERVICES, clock, hash_seed, request, response, logged, prediction>>

classifierVars == <<description, params, parsed>>

estimatorVars == <<template, call, estimate>>

validatorVars == <<ran, printed, samples, exit_status>>

appVars == <<SERVICES, clock, hash_seed, request, response, logged, prediction>>

\* The value of params before parse_natural_language has returned.
NoParams == [kitchen_size |-> "", scope |-> "", quality_tier |-> ""]

\* first tells whether no estimate was computed before this call.
NoCall == [fn |-> "none", first |-> TRUE]

NoEstimate == Produced("none", <<>>, <<>>, 0)

ClassifierIdle ==
    /\ description = <<>>
    /\ params = NoParams
    /\ parsed = FALSE

EstimatorIdle ==
    /\ template = EmptyDict
    /\ call = NoCall
    /\ estimate = NoEstimate

ValidatorIdle ==
    /\ ran = FALSE
    /\ printed = <<>>
    /\ samples = <<>>
    /\ exit_status = 0

\* first tells whether no request was handled before this one.
NoRequest ==
    [route |-> "none", body |-> [kind |-> "none", fields |-> EmptyDict],
     at |-> 0, first |-> TRUE]

NoResponse == [status |-> 0, body |-> EmptyDict]

AppIdle ==
    /\ SERVICES = ServiceRegistry
    /\ clock = 0
    /\ hash_seed = 0
    /\ request = NoRequest
    /\ response = NoResponse
    /\ logged = <<>>
    /\ prediction = <<>>

(***************************************************************************)
(* State machine of the classifier: the description is drawn when the      *)
(* run starts and parse_natural_language is then applied to it.            *)
(***************************************************************************)
InitClassifier ==
    /\ description \in Descriptions
    /\ params = NoParams
    /\ parsed = FALSE
    /\ EstimatorIdle
    /\ ValidatorIdle
    /\ AppIdle

ParseNaturalLanguage ==
    /\ ~parsed
    /\ params' = parse_natural_language(description)
    /\ parsed' = TRUE
    /\ UNCHANGED <<description, estimatorVars, validatorVars, appVars>>

NextClassifier == ParseNaturalLanguage

SpecClassifier == InitClassifier /\ [][NextClassifier]_vars

(***************************************************************************)
(* State machine of the estimators: a template is loaded when the run      *)
(* starts (EstimateGenerator.__init__, load_template) and the two entry    *)
(* points are then called on it any number of times.                       *)
(***************************************************************************)
\* Descriptions given to generate_estimate: the second scenario of main and
\* short ones that between them reach every size, scope and quality value.
EstimateDescriptions ==
    { Scenario2,
      <<"S","m","a","l","l">>,
      <<"b","u","d","g","e","t"," ","p","a","i","n","t">>,
      <<"l","u","x","u","r","y">>,
      <<"n","i","c","e">>,
      <<"m","a","s","s","i","v","e"," ","g","u","t">> }

\* Arguments given to calculate_sample_estimate: every pair of the two
\* enumerations (main's scenarios among them) and names outside them.
SampleArguments ==
    ({"small", "medium", "large", "xl"}
        \X {"cosmetic", "standard", "gut_renovation"})
    \cup {<<"huge", "standard">>, <<"medium", "partial">>}

InitEstimator ==
    /\ template \in Templates
    /\ call = NoCall
    /\ estimate = NoEstimate
    /\ ClassifierIdle
    /\ ValidatorIdle
    /\ AppIdle

\* A generate_estimate that drops the phases it has processed from the
\* loaded template.
GenerateEstimate_ConsumesPhases ==
    \E d \in EstimateDescriptions :
        /\ call' = [fn |-> "generate_estimate", description |-> d,
                    first |-> (call.fn = "none")]
        /\ estimate' = generate_estimate(template, d)
        /\ template' =
               IF generate_estimate(template, d).outcome = "returned"
               THEN [template EXCEPT !.phases = <<>>]
               ELSE template
        /\ UNCHANGED <<classifierVars, validatorVars, appVars>>

GenerateEstimate ==
    \E d \in EstimateDescriptions :
        /\ call' = [fn |-> "generate_estimate", description |-> d,
                    first |-> (call.fn = "none")]
        /\ estimate' = generate_estimate(template, d)
        /\ UNCHANGED <<template, classifierVars, validatorVars, appVars>>

CalculateSampleEstimate ==
    \E a \in SampleArguments :
        /\ call' = [fn |-> "calculate_sample_estimate",
                    kitchen_size |-> a[1], scope |-> a[2],
                    first |-> (call.fn = "none")]
        /\ estimate' = calculate_sample_estimate(template, a[1], a[2])
        /\ UNCHANGED <<template, classifierVars, validatorVars, appVars>>

NextEstimator == GenerateEstimate \/ CalculateSampleEstimate

SpecEstimator == InitEstimator /\ [][NextEstimator]_vars

(***************************************************************************)
(* State machine of validate_template.py: the template file is drawn when  *)
(* the run starts, with any set of top-level keys and a phases list whose  *)
(* phases may lack fields, and main then runs to its exit.                 *)
(***************************************************************************)
\* A phase without phase_name and sequence.
PhaseUnnamed == [phase_id |-> "misc", tasks |-> <<>>, materials |-> <<>>]

ValidatorPhaseLists ==
    UNION { [1..n -> PhasePool \cup {PhaseUnnamed}] : n \in 0..MaxPhases }

\* Rates without the skilled category.
LaborRatesNoSkilled == [general |-> [typical |-> 3]]

TopLevelKeys ==
    {"job_id", "trade_category", "job_name", "description", "phases",
     "labor_rates", "sizing_factors", "quality_tiers"}

ValidatorTemplates ==
    { [k \in keys |-> MakeTemplate(ps, lr, sf, QualityTiersFull)[k]] :
        keys \in SUBSET TopLevelKeys, ps \in ValidatorPhaseLists,
        lr \in {LaborRatesFull, LaborRatesNoSkilled},
        sf \in {SizingFactorsFull, SizingFactorsPartial} }

InitValidator ==
    /\ template \in ValidatorTemplates
    /\ call = NoCall
    /\ estimate = NoEstimate
    /\ ValidatorIdle
    /\ ClassifierIdle
    /\ AppIdle

Main ==
    /\ ~ran
    /\ ran' = TRUE
    /\ printed' = main(template).printed
    /\ samples' = main(template).samples
    /\ exit_status' = main(template).exit_status
    /\ UNCHANGED <<classifierVars, estimatorVars, appVars>>

NextValidator == Main

SpecValidator == InitValidator /\ [][NextValidator]_vars

(***************************************************************************)
(* State machine of app.py: one process, whose hash seed is drawn when it  *)
(* starts, handles requests one after the other while the clock advances.  *)
(* A handler reads the clock once.                                         *)
(***************************************************************************)
\* A field that the JSON object does not carry.
Absent == [t |-> "absent", s |-> <<>>]

\* The JSON object with the fields of `fields` that are not Absent.
Object(fields) ==
    [kind |-> "object",
     fields |-> [k \in {f \in DOMAIN fields : fields[f] # Absent} |-> fields[k]]]

NonObjectBodies ==
    { [kind |-> k, fields |-> EmptyDict] :
        k \in {"no_json", "malformed", "null", "array"} }

SportsBodies ==
    NonObjectBodies \cup
    { Object([sport |-> sport, team1 |-> team1, team2 |-> team2,
              app_id |-> app_id]) :
        sport  \in {Absent, JStr(<<"n","b","a">>)},
        team1  \in {Absent, JStr(<<>>),
                    JStr(<<"L","A"," ","C","l","i","p","p","e","r","s">>),
                    JInt7},
        team2  \in {Absent, JStr(<<>>), JStr(<<"C","e","l","t","i","c","s">>),
                    JNull},
        app_id \in {Absent, JStr(<<"f","i","r","e","b","e","t">>)} }

CryptoBodies ==
    NonObjectBodies \cup
    { Object([coin |-> coin, timeframe |-> timeframe, user_id |-> user_id]) :
        coin      \in {Absent, JStr(<<"B","i","t","c","o","i","n">>),
                       JStr(<<"d","o","g","e">>), JInt7},
        timeframe \in {Absent, JStr(<<"2","4","h">>), JStr(<<"1","w">>),
                       JEmptyList, JInt7},
        user_id   \in {Absent, JStr(<<"u","4","2">>)} }

NoBody == [kind |-> "none", fields |-> EmptyDict]

InitApp ==
    /\ SERVICES = ServiceRegistry
    /\ clock = 0
    /\ hash_seed \in (0 - MaxSeed)..MaxSeed
    /\ request = NoRequest
    /\ response = NoResponse
    /\ logged = <<>>
    /\ prediction = <<>>
    /\ ClassifierIdle
    /\ EstimatorIdle
    /\ ValidatorIdle

\* A request handling that also switches a service of the registry to live.
Respond_RegistersService(route, body, handled) ==
    /\ request' = [route |-> route, body |-> body, at |-> clock,
                   first |-> (request.route = "none")]
    /\ response' = handled.response
    /\ logged' = handled.logged
    /\ prediction' = handled.prediction
    /\ SERVICES' = [SERVICES EXCEPT !.firebet.status = "live"]
    /\ UNCHANGED <<clock, hash_seed, classifierVars, estimatorVars,
                   validatorVars>>

\* The handler's result becomes the state of the last request; the request
\* records the clock reading at which it was handled and whether it was the
\* first request of the process.
Respond(route, body, handled) ==
    /\ request' = [route |-> route, body |-> body, at |-> clock,
                   first |-> (request.route = "none")]
    /\ response' = handled.response
    /\ logged' = handled.logged
    /\ prediction' = handled.prediction
    /\ UNCHANGED <<SERVICES, clock, hash_seed, classifierVars, estimatorVars,
                   validatorVars>>

Home == Respond("/", NoBody, home(SERVICES, clock))

Services == Respond("/services", NoBody, services(SERVICES, clock))

Health == Respond("/health", NoBody, health(SERVICES, clock))

SportsPredict ==
    \E body \in SportsBodies :
        Respond("/sports/predict", body, sports_predict(body, clock, hash_seed))

CryptoPredict ==
    \E body \in CryptoBodies :
        Respond("/crypto/predict", body, crypto_predict(body, clock, hash_seed))

Tick ==
    /\ clock < MaxClock
    /\ clock' = clock + 1
    /\ UNCHANGED <<SERVICES, hash_seed, request, response, logged, prediction,
                   classifierVars, estimatorVars, validatorVars>>

NextApp ==
    Home \/ Services \/ Health \/ SportsPredict \/ CryptoPredict \/ Tick

SpecApp == InitApp /\ [][NextApp]_vars

(***************************************************************************)
(* Properties of the classifier.  Substring containment is restated here   *)
(* through SubSeq, independently of the operator the model computes with.  *)
(***************************************************************************)
HasSubstring(text, word) ==
    \E i \in 1..Len(text) : \E j \in i..Len(text) : SubSeq(text, i, j) = word

HasAnyOf(text, words) == \E k \in 1..Len(words) : HasSubstring(text, words[k])

KitchenSizes == {"small", "medium", "large", "xl"}

Scopes == {"cosmetic", "standard", "gut_renovation"}

QualityTiers == {"budget", "mid_range", "high_end", "luxury"}

\* C4 as stated: the classifier maps scenario 2 ("Complete gut renovation of
\* large luxury kitchen with custom everything") to size xl, scope
\* gut_renovation and quality luxury.
C4_Scenario2IsXl ==
    (parsed /\ description = Scenario2) =>
        params = [kitchen_size |-> "xl", scope |-> "gut_renovation",
                  quality_tier |-> "luxury"]

\* C4 amended: the classifier maps scenario 2 to size large (the keyword
\* "large" is tested before "luxury"), scope gut_renovation and quality luxury.
C4_Scenario2IsLarge ==
    (parsed /\ description = Scenario2) =>
        params = [kitchen_size |-> "large", scope |-> "gut_renovation",
                  quality_tier |-> "luxury"]

C4_Witness == parsed /\ description = Scenario2

\* C9: a description that contains "small" in any letter case is classified
\* as size small whatever other size keywords it contains; in general the
\* size groups are tried in the order small, large, xl and the first group
\* with a keyword in the description decides.
C9_SmallWinsAndSizeOrder ==
    parsed =>
        LET text  == lower(description)
            small == HasAnyOf(text, SizeSmallWords)
            large == HasAnyOf(text, SizeLargeWords)
            xl    == HasAnyOf(text, SizeXlWords)
        IN  /\ HasSubstring(text, <<"s","m","a","l","l">>)
                => params.kitchen_size = "small"
            /\ small => params.kitchen_size = "small"
            /\ (~small /\ large) => params.kitchen_size = "large"
            /\ (~small /\ ~large /\ xl) => params.kitchen_size = "xl"

\* A description with "Small" in mixed case together with a large keyword
\* and an xl keyword has been classified.
C9_Witness ==
    /\ parsed
    /\ HasSubstring(description, <<"S","m","a","l","l">>)
    /\ HasSubstring(description, <<"l","a","r","g","e">>)
    /\ HasSubstring(description, <<"l","u","x","u","r","y">>)

AllKeywords ==
    SizeSmallWords \o SizeLargeWords \o SizeXlWords \o ScopeCosmeticWords
        \o ScopeGutWords \o QualityBudgetWords \o QualityLuxuryWords
        \o QualityHighEndWords

\* C10: a description that contains no recognized keyword is classified as
\* (medium, standard, mid_range), and every description is classified with
\* each component in its enumeration.
C10_DefaultTripleAndTotal ==
    parsed =>
        /\ ~HasAnyOf(lower(description), AllKeywords)
            => params = [kitchen_size |-> "medium", scope |-> "standard",
                         quality_tier |-> "mid_range"]
        /\ params.kitchen_size \in KitchenSizes
        /\ params.scope \in Scopes
        /\ params.quality_tier \in QualityTiers

\* A non-empty description without any keyword has been classified.
C10_Witness ==
    /\ parsed
    /\ description # <<>>
    /\ ~HasAnyOf(lower(description), AllKeywords)

(***************************************************************************)
(* Properties of the estimators.  What an estimate should be is restated   *)
(* here from the template alone.                                           *)
(***************************************************************************)
RECURSIVE SeqSum(_)
SeqSum(s) == IF s = <<>> THEN 0 ELSE Head(s) + SeqSum(Tail(s))

\* The size, scope and quality the last call computed with.
CallParams ==
    IF call.fn = "generate_estimate"
    THEN parse_natural_language(call.description)
    ELSE [kitchen_size |-> call.kitchen_size, scope |-> call.scope,
          quality_tier |-> "not a parameter"]

SizeKnown == CallParams.kitchen_size \in DOMAIN template.sizing_factors.kitchen_size

ScopeKnown == CallParams.scope \in DOMAIN template.sizing_factors.renovation_scope

QualityKnown == CallParams.quality_tier \in DOMAIN template.quality_tiers

\* Whether the i-th phase of the template is included under a scope key.
PhaseCounts(scope_key, i) ==
    LET factor == template.sizing_factors.renovation_scope[scope_key]
    IN  \/ "phases_included" \notin DOMAIN factor
        \/ factor.phases_included = <<"a", "l", "l">>
        \/ /\ factor.phases_included # <<"a", "l", "l">>
           /\ \E k \in 1..Len(factor.phases_included) :
                  factor.phases_included[k] = template.phases[i].phase_id

\* Sum of labor_hours over all tasks of the included phases.
RawLaborHours(scope_key) ==
    SeqSum([i \in 1..Len(template.phases) |->
        IF PhaseCounts(scope_key, i) /\ "tasks" \in DOMAIN template.phases[i]
        THEN SeqSum([j \in 1..Len(template.phases[i].tasks) |->
                 IF "labor_hours" \in DOMAIN template.phases[i].tasks[j]
                 THEN template.phases[i].tasks[j].labor_hours ELSE 0])
        ELSE 0])

Field(d, k) == IF k \in DOMAIN d THEN d[k] ELSE 0

Field1(d, k) == IF k \in DOMAIN d THEN d[k] ELSE 1

\* Sum over the included phases' materials of
\* quantity x unit_cost x (1 + waste_factor).
RawMaterialCost(scope_key) ==
    SeqSum([i \in 1..Len(template.phases) |->
        IF PhaseCounts(scope_key, i) /\ "materials" \in DOMAIN template.phases[i]
        THEN SeqSum([j \in 1..Len(template.phases[i].materials) |->
                 LET m == template.phases[i].materials[j]
                 IN  Field(m, "quantity") * Field(m, "unit_cost_base")
                         * (1 + Field(m, "waste_factor"))])
        ELSE 0])

Returned == estimate.outcome = "returned"

Totals == estimate.totals[1]

\* C1 as stated: in both entry points the reported material cost is the raw
\* material cost times a quality tier's material multiplier (the tier of the
\* call in generate_estimate, some tier of the template in
\* calculate_sample_estimate, which takes no quality), and it is the same for
\* every kitchen size.
C1_MaterialCostIsRawTimesQuality ==
    Returned =>
        /\ call.fn = "generate_estimate" =>
               Totals.material_cost =
                   RawMaterialCost(CallParams.scope)
                       * template.quality_tiers[CallParams.quality_tier]
                             .material_multiplier
        /\ call.fn = "calculate_sample_estimate" =>
               /\ \E q \in DOMAIN template.quality_tiers :
                      Totals.material_cost =
                          RawMaterialCost(CallParams.scope)
                              * template.quality_tiers[q].material_multiplier
               /\ \A size \in DOMAIN template.sizing_factors.kitchen_size :
                      LET other == calculate_sample_estimate(
                                       template, size, call.scope)
                      IN  other.outcome = "returned" =>
                              other.totals[1].material_cost
                                  = Totals.material_cost

\* C7: a call whose size, scope or quality key is absent from the template
\* ends with an error outcome (KeyError from generate_estimate, None from
\* calculate_sample_estimate), with no line items, no totals and no phase
\* processed.
C7_AbsentKeyFailsFast ==
    /\ (call.fn = "generate_estimate"
            /\ (~SizeKnown \/ ~ScopeKnown \/ ~QualityKnown))
       => /\ estimate.outcome = "KeyError"
          /\ estimate.line_items = <<>>
          /\ estimate.totals = <<>>
          /\ estimate.phases_processed = 0
    /\ (call.fn = "calculate_sample_estimate" /\ (~SizeKnown \/ ~ScopeKnown))
       => /\ estimate.outcome = "None"
          /\ estimate.line_items = <<>>
          /\ estimate.totals = <<>>
          /\ estimate.phases_processed = 0

\* generate_estimate was called on a template with phases that has the size
\* and the scope of the call but not its quality tier.
C7_Witness ==
    /\ call.fn = "generate_estimate"
    /\ SizeKnown /\ ScopeKnown /\ ~QualityKnown
    /\ template.phases # <<>>
    /\ estimate.outcome = "KeyError"

\* C8: the totals of a returned estimate satisfy
\* total_cost = labor_cost + material_cost, and, when the size and scope
\* factors carry a complexity multiplier, labor_cost = (sum of labor_hours
\* over the tasks of the included phases) x size multiplier x scope
\* multiplier x labor_rates.skilled.typical.
C8_TotalIsLaborPlusMaterial ==
    Returned =>
        LET size_factor  ==
                template.sizing_factors.kitchen_size[CallParams.kitchen_size]
            scope_factor ==
                template.sizing_factors.renovation_scope[CallParams.scope]
        IN  /\ Totals.total_cost = Totals.labor_cost + Totals.material_cost
            /\ ("complexity_multiplier" \in DOMAIN size_factor
                    /\ "complexity_multiplier" \in DOMAIN scope_factor)
               => Totals.labor_cost =
                      RawLaborHours(CallParams.scope)
                          * size_factor.complexity_multiplier
                          * scope_factor.complexity_multiplier
                          * template.labor_rates.skilled.typical

\* generate_estimate returned an estimate that includes a task of a rate
\* category other than skilled, with a complexity above 1.
C8_Witness ==
    /\ Returned
    /\ call.fn = "generate_estimate"
    /\ \E i \in 1..Len(estimate.line_items) :
           /\ estimate.line_items[i].category = "labor"
           /\ estimate.line_items[i].hours > 0
           /\ estimate.line_items[i].rate # template.labor_rates.skilled.typical
    /\ Totals.labor_hours > RawLaborHours(CallParams.scope)
    /\ Totals.material_cost > 0

\* The phases of the template that count under a scope key, in template
\* order, from index i on.
RECURSIVE CountedPhases(_, _)
CountedPhases(scope_key, i) ==
    IF i > Len(template.phases) THEN <<>>
    ELSE (IF PhaseCounts(scope_key, i) THEN <<template.phases[i]>> ELSE <<>>)
             \o CountedPhases(scope_key, i + 1)

\* <<category, phase name, description>> of the items of one phase: its
\* tasks first, then its materials.
ItemKeysOfPhase(p) ==
    LET tasks     == IF "tasks" \in DOMAIN p THEN p.tasks ELSE <<>>
        materials == IF "materials" \in DOMAIN p THEN p.materials ELSE <<>>
    IN  [j \in 1..Len(tasks) |-> <<"labor", p.phase_name, tasks[j].task>>]
        \o [j \in 1..Len(materials) |->
                <<"material", p.phase_name, materials[j].item>>]

RECURSIVE ItemKeysOfPhases(_)
ItemKeysOfPhases(phases) ==
    IF phases = <<>> THEN <<>>
    ELSE ItemKeysOfPhase(Head(phases)) \o ItemKeysOfPhases(Tail(phases))

\* The last call made again on the template cut down to the given phases.
SameCallOn(phases) ==
    LET cut == [template EXCEPT !.phases = phases]
    IN  IF call.fn = "generate_estimate"
        THEN generate_estimate(cut, call.description)
        ELSE calculate_sample_estimate(cut, call.kitchen_size, call.scope)

\* C11: a returned estimate is made of the phases that count under the
\* call's scope (all phases when phases_included is 'all' or absent, else
\* those whose phase_id is listed), in template order: that many phases were
\* processed, the line items of generate_estimate are those phases' items in
\* order with each phase's tasks before its materials, the labor hours are
\* those phases' hours times the complexity multipliers, and the estimate is
\* the one the same call gives on a template holding only those phases.
C11_IncludedPhasesInTemplateOrder ==
    Returned =>
        LET scope_key    == CallParams.scope
            counted      == CountedPhases(scope_key, 1)
            size_factor  ==
                template.sizing_factors.kitchen_size[CallParams.kitchen_size]
            scope_factor == template.sizing_factors.renovation_scope[scope_key]
        IN  /\ estimate.phases_processed = Len(counted)
            /\ call.fn = "generate_estimate" =>
                   /\ Len(estimate.line_items) = Len(ItemKeysOfPhases(counted))
                   /\ \A j \in 1..Len(estimate.line_items) :
                          << estimate.line_items[j].category,
                             estimate.line_items[j].phase,
                             estimate.line_items[j].description >>
                              = ItemKeysOfPhases(counted)[j]
            /\ call.fn = "calculate_sample_estimate" =>
                   estimate.line_items = <<>>
            /\ Totals.labor_hours =
                   RawLaborHours(scope_key)
                       * Field1(size_factor, "complexity_multiplier")
                       * Field1(scope_factor, "complexity_multiplier")
            /\ SameCallOn(counted) =
                   [estimate EXCEPT !.phases_processed = Len(counted)]

\* generate_estimate returned an estimate under a scope that lists phase
\* ids, on a template with a phase that is listed and a phase that is not.
C11_Witness ==
    /\ Returned
    /\ call.fn = "generate_estimate"
    /\ "phases_included" \in DOMAIN
           template.sizing_factors.renovation_scope[CallParams.scope]
    /\ template.sizing_factors.renovation_scope[CallParams.scope]
           .phases_included # <<"a", "l", "l">>
    /\ \E i \in 1..Len(template.phases) : ~PhaseCounts(CallParams.scope, i)
    /\ \E i \in 1..Len(template.phases) : PhaseCounts(CallParams.scope, i)
    /\ estimate.line_items # <<>>
    /\ Totals.labor_hours > 0

\* C13: every step leaves the loaded template as it was, and the estimate of
\* a call is the estimate the same call gives on that template when nothing
\* was computed before it: same outcome, line items and totals, whatever
\* estimates were computed earlier.
C13_EstimateIsPure ==
    /\ [][template' = template]_vars
    /\ [](call.fn # "none" => estimate = SameCallOn(template.phases))

\* An estimate with line items was returned by a call that was not the first
\* on the template.
C13_Witness ==
    /\ ~call.first
    /\ call.fn = "generate_estimate"
    /\ Returned
    /\ estimate.line_items # <<>>
    /\ Totals.total_cost > 0

(***************************************************************************)
(* Properties of validate_template.py.                                     *)
(***************************************************************************)
\* The required top-level fields the template lacks.
MissingTopLevel ==
    {"job_id", "trade_category", "job_name", "description", "phases",
     "labor_rates", "sizing_factors"} \ DOMAIN template

\* The required phase fields the i-th phase lacks.
MissingInPhase(i) ==
    {"phase_id", "phase_name", "sequence", "tasks", "materials"}
        \ DOMAIN template.phases[i]

ValidationFails ==
    \/ MissingTopLevel # {}
    \/ /\ "phases" \in DOMAIN template
       /\ \/ template.phases = <<>>
          \/ \E i \in 1..Len(template.phases) : MissingInPhase(i) # {}

\* C2 as stated: when validation fails, main exits with a non-zero status,
\* computes no sample estimate, and has printed every missing required
\* top-level field and, for every phase, every missing required phase field.
\* It is stated for template files that hold a non-empty JSON object (main
\* takes an empty one for a file that failed to load and prints nothing).
C2_AllProblemsReported ==
    (ran /\ template # EmptyDict /\ ValidationFails) =>
        /\ exit_status # 0
        /\ samples = <<>>
        /\ \A f \in MissingTopLevel :
               \E k \in 1..Len(printed) :
                   /\ printed[k].line = "Missing required fields"
                   /\ InList(f, printed[k].fields)
        /\ "phases" \in DOMAIN template =>
               \A i \in 1..Len(template.phases) :
                   \A f \in MissingInPhase(i) :
                       \E k \in 1..Len(printed) :
                           /\ printed[k].line = "Phase missing fields"
                           /\ printed[k].phase = i
                           /\ InList(f, printed[k].fields)

(***************************************************************************)
(* Properties of app.py.                                                   *)
(***************************************************************************)
\* C3 as stated: every response, of every route and every status, has a
\* timestamp field that holds the time at which the request was handled.
C3_EveryResponseHasTimestamp ==
    request.route # "none" =>
        /\ "timestamp" \in DOMAIN response.body
        /\ response.body.timestamp = isoformat(request.at)

\* Whether a field of the request's JSON object is absent or the empty string.
AbsentOrEmpty(field) ==
    \/ field \notin DOMAIN request.body.fields
    \/ request.body.fields[field] = [t |-> "str", s |-> <<>>]

\* C5 as stated: a POST /sports/predict whose JSON object lacks team1 or
\* team2, or holds the empty string for one, is answered 400 with exactly
\* {"error": "Both team1 and team2 are required"}; no prediction is computed
\* and no activity record is logged.
C5_MissingTeamIs400 ==
    (/\ request.route = "/sports/predict"
     /\ request.body.kind = "object"
     /\ (AbsentOrEmpty("team1") \/ AbsentOrEmpty("team2")))
    => /\ response = [status |-> 400,
                      body |-> [error |-> "Both team1 and team2 are required"]]
       /\ prediction = <<>>
       /\ \A k \in 1..Len(logged) : logged[k].message # "ACTIVITY"

\* Whether a field of the request's JSON object is present with a type in types.
FieldHasType(field, types) ==
    /\ field \in DOMAIN request.body.fields
    /\ request.body.fields[field].t \in types

NotStr == {"int", "NoneType", "list", "dict"}

\* The requests whose handling raises: no JSON object as body, a team or
\* coin that is not a string, a timeframe that cannot be a dict key.
HandlingRaises ==
    \/ /\ request.route \in {"/sports/predict", "/crypto/predict"}
       /\ request.body.kind # "object"
    \/ /\ request.route = "/sports/predict"
       /\ request.body.kind = "object"
       /\ (FieldHasType("team1", NotStr) \/ FieldHasType("team2", NotStr))
    \/ /\ request.route = "/crypto/predict"
       /\ request.body.kind = "object"
       /\ (FieldHasType("coin", NotStr)
               \/ FieldHasType("timeframe", {"list", "dict"}))

GenericError ==
    IF request.route = "/sports/predict"
    THEN [error |-> "Sports intelligence temporarily unavailable"]
    ELSE [error |-> "Crypto intelligence temporarily unavailable"]

\* C6: a request to a predict route whose handling raises is answered 500
\* with the route's fixed message and nothing else, and no prediction comes
\* out of it; every 500 of these routes has that body, and every 200 carries
\* a complete prediction.
C6_ExceptionsBecomeGeneric500 ==
    request.route \in {"/sports/predict", "/crypto/predict"} =>
        /\ HandlingRaises =>
               /\ response = [status |-> 500, body |-> GenericError]
               /\ prediction = <<>>
        /\ response.status = 500 => response.body = GenericError
        /\ response.status \in {200, 400, 500}
        /\ response.status = 200 =>
               /\ prediction = <<response.body>>
               /\ DOMAIN response.body =
                      IF request.route = "/sports/predict"
                      THEN {"prediction", "confidence", "sport", "matchup",
                            "factors", "betting_recommendations", "timestamp",
                            "service"}
                      ELSE {"coin", "timeframe", "prediction", "price_target",
                            "confidence", "factors", "timestamp", "service"}

\* A crypto request with a string coin and a list timeframe was answered:
\* the exception is raised inside process_crypto_prediction.
C6_Witness ==
    /\ request.route = "/crypto/predict"
    /\ request.body.kind = "object"
    /\ FieldHasType("coin", {"str"})
    /\ FieldHasType("timeframe", {"list"})
    /\ response.status = 500

\* A response body without its timestamp field.
WithoutTimestamp(body) == [k \in DOMAIN body \ {"timestamp"} |-> body[k]]

\* The response a request gets as the first request of a process that has
\* the same string hash seed: the registry is as loaded, the clock at 0.
FirstAnswer(route, body) ==
    (CASE route = "/" -> home(ServiceRegistry, 0)
       [] route = "/services" -> services(ServiceRegistry, 0)
       [] route = "/health" -> health(ServiceRegistry, 0)
       [] route = "/sports/predict" -> sports_predict(body, 0, hash_seed)
       [] route = "/crypto/predict" -> crypto_predict(body, 0, hash_seed)
    ).response

====
